---- MODULE Spec2Model ----
(***************************************************************************)
(* The element-interaction readiness layer of Pages/basepage.py: BasePage  *)
(* wraps a Selenium WebDriver and composes a WebDriverWait on an expected  *)
(* condition with one or more driver actions.                              *)
(*                                                                         *)
(* Time is counted in ticks of one WebDriverWait poll interval (0.5 s),    *)
(* measured from the start of the facade call in progress.                 *)
(***************************************************************************)
EXTENDS Integers, Sequences, FiniteSets, TLC

\* ------------------------------------------------------------------ bounds
\* The document replaces the element matched by the locator at most MaxGen times.
MaxGen == 2
\* A driver query (find_element and the reads of one expected condition) takes
\* between 0 and MaxFindTicks ticks.
MaxFindTicks == 1
\* time.sleep(poll) returns after the poll interval plus 0..MaxOversleep ticks.
MaxOversleep == 1
\* Callers pass timeouts of 0..MaxTimeoutArg seconds.
MaxTimeoutArg == 2
\* The session has at most MaxWindows windows.
MaxWindows == 3
\* The locator matches at most MaxMatches elements of the document.
MaxMatches == 3
\* select_multiple_dropdown_options is given at most MaxOptions option texts.
MaxOptions == 2
\* Each of the two elements of a two-locator method is attached at most
\* MaxRenders times.
MaxRenders == 1

\* ------------------------------------------------------- program constants
\* timeout=10, the default of every wait_for_* method and of is_element_clickable.
DefaultTimeout == 10
\* WebDriverWait(self.driver, timeout) is built with the default poll frequency of
\* half a second: two polls (ticks) per second, sleep(poll) lasts one tick.
TicksPerSecond == 2
PollTicks == 1

\* --------------------------------------------------------------- variables
VARIABLES
    dom,            \* the element the locator matches: [present, visible, enabled, gen]
    pc,             \* "idle" | "poll" | "sleep" | "act" | "done"
    op,             \* the facade method being executed (its descriptor)
    arg,            \* the timeout argument of the call: [given, secs]
    now,            \* ticks elapsed since the call started (time.monotonic())
    endTime,        \* WebDriverWait.until's end_time
    handle,         \* the WebElement the wait returned: [gen, fresh]; gen 0: none
    log,            \* the driver actions performed on the element in this call
    outcome,        \* "none" | "returned" | the name of the exception raised
    result,         \* the value returned: "None" | "True" | "False" | "element" | "value" | ...
    count,          \* how many elements of the document the locator matches
    alert,          \* a JavaScript alert is open
    elements,          \* how many elements the wait returned (a list, for wait_for_elements)
    index,          \* click_elements' index argument: [given, at]
    options,        \* select_multiple_dropdown_options' options argument, as its length
    number,         \* the integer returned, where the method returns one
    dom2,           \* the element the second locator of a two-locator method matches
    stage,          \* which wait of the call is running or ran last: 1 | 2
    handle2,        \* the WebElement the second wait returned
    \* history variables, not program state
    prev,           \* the WebElement an earlier call obtained (the page object keeps none)
    everPresent,    \* the locator matched at some moment of this call's wait
    everVisible,    \* it matched a displayed element at some moment of this call's wait
    waitTimedOut,   \* this call's WebDriverWait raised TimeoutException
    waitReturned,   \* this call's WebDriverWait returned a value
    everAlert,      \* an alert was open at some moment of this call's wait
    everSecond,     \* the second locator matched at some moment of the second wait
    secondStart,    \* now when the second wait started
    firstGen        \* the first generation of the element that can match during the call

VARIABLES
    handles,        \* driver.window_handles: the open windows, oldest first
    page,           \* each window's document: [title, url]
    cur,            \* the window the session is focused on (closed when not in handles)
    wop,            \* the last window method called: [name, index, text]
    woutcome,       \* "none" | "returned" | the name of the exception raised
    \* history variables, not program state
    examined,       \* the windows the last call switched to, in order
    startCur        \* cur when the last call started

waitVars == <<dom, pc, op, arg, now, endTime, handle, log, outcome, result,
              count, alert, elements, index, options, number,
              dom2, stage, handle2, everSecond, secondStart,
              prev, everPresent, everVisible, waitTimedOut, waitReturned,
              everAlert, firstGen>>

VARIABLES
    jar,            \* the session's cookies, as the browser stores them
    cop,            \* the last cookie method called: [name, cookie]
    cres,           \* what it returned, where it returns a cookie
    \* history variables, not program state
    prevJar,        \* jar before the last call
    prevCop         \* the call before the last

secondVars == <<dom2, stage, handle2, everSecond, secondStart>>

winVars == <<handles, page, cur, wop, woutcome, examined, startCur>>

cookieVars == <<jar, cop, cres, prevJar, prevCop>>

VARIABLES
    files,          \* the local file system: what each path holds
    served,         \* what each URL serves
    fop,            \* the last file method called: [name, url, path]
    foutcome        \* "none" | "returned"

fileVars == <<files, served, fop, foutcome>>

VARIABLES
    dropdown,       \* the <select> element: [multiple, options], an option [value, text]
    picked,         \* the positions of its selected options
    sop,            \* the last dropdown method called: [name, arg, outcome]
    sres,           \* the text it returned, where it returns one
    \* history variables, not program state
    prevSop,        \* the call before the last
    prevPicked      \* picked before the last call

selectVars == <<dropdown, picked, sop, sres, prevSop, prevPicked>>

VARIABLES
    config,         \* BrowserConfig: [browser, headless]
    phase,          \* the setup fixture: "new" | "test" | "failed" | "closed"
    session,        \* the driver session: [driver, options, headless, browser]
    setupOutcome    \* "none" | "yielded" | the name of the exception raised

sessionVars == <<config, phase, session, setupOutcome>>

VARIABLES
    self            \* the page object's attributes: [driver, others]

vars == <<waitVars, winVars, cookieVars, fileVars, selectVars, sessionVars, self>>

\* ------------------------------------------------------------ the document
Absent(g) == [present |-> FALSE, visible |-> FALSE, enabled |-> FALSE, gen |-> g]

DomStates ==
    {Absent(g) : g \in 0..MaxGen}
    \cup [present : {TRUE}, visible : BOOLEAN, enabled : BOOLEAN, gen : 1..MaxGen]

NoHandle == [gen |-> 0, fresh |-> FALSE]
NoArg == [given |-> FALSE, secs |-> 0]

\* --------------------------------------------------- the facade's methods
\* One descriptor per BasePage method: the WebDriverWait call it makes (until
\* or until_not, on which expected condition), whether its signature has a
\* timeout parameter, whether it wraps the wait in "except TimeoutException:
\* return False", the driver actions it performs on the element once the wait
\* has returned, and what it returns.
Method(n, w, c, t, x, a, r) ==
    [name |-> n, wait |-> w, ec |-> c, hasTimeout |-> t, catches |-> x,
     acts |-> a, ret |-> r]

wait_for_element ==
    Method("wait_for_element", "until", "presence_of_element_located",
           TRUE, FALSE, <<>>, "element")

\* click_element wrapped in the try/except of the boolean queries.
click_element_swallowing ==
    Method("click_element", "until", "presence_of_element_located",
           FALSE, TRUE, <<"click">>, "None")

click_element ==
    Method("click_element", "until", "presence_of_element_located",
           FALSE, FALSE, <<"click">>, "None")

input_text ==
    Method("input_text", "until", "presence_of_element_located",
           FALSE, FALSE, <<"clear", "send_keys">>, "None")

wait_for_visible_element ==
    Method("wait_for_visible_element", "until", "visibility_of_element_located",
           TRUE, FALSE, <<>>, "element")

wait_for_invisible_element ==
    Method("wait_for_invisible_element", "until_not", "presence_of_element_located",
           TRUE, FALSE, <<>>, "until_not")

get_element_text ==
    Method("get_element_text", "until", "presence_of_element_located",
           FALSE, FALSE, <<"text">>, "value")

get_element_attribute ==
    Method("get_element_attribute", "until", "presence_of_element_located",
           FALSE, FALSE, <<"get_attribute">>, "value")

select_dropdown_option_by_value ==
    Method("select_dropdown_option_by_value", "until", "presence_of_element_located",
           FALSE, FALSE, <<"select_by_value">>, "None")

is_element_displayed ==
    Method("is_element_displayed", "until", "visibility_of_element_located",
           FALSE, TRUE, <<"is_displayed">>, "displayed")

\* is_element_clickable without its except clause.
is_element_clickable_uncaught ==
    Method("is_element_clickable", "until", "element_to_be_clickable",
           TRUE, FALSE, <<>>, "True")

is_element_clickable ==
    Method("is_element_clickable", "until", "element_to_be_clickable",
           TRUE, TRUE, <<>>, "True")

switch_to_frame ==
    Method("switch_to_frame", "until", "presence_of_element_located",
           FALSE, FALSE, <<"switch_to.frame">>, "None")

hover_over_element ==
    Method("hover_over_element", "until", "presence_of_element_located",
           FALSE, FALSE, <<"move_to_element">>, "None")

scroll_into_view ==
    Method("scroll_into_view", "until", "presence_of_element_located",
           FALSE, FALSE, <<"execute_script">>, "None")

\* A double click that waits until the element can be clicked.
perform_double_click_when_clickable ==
    Method("perform_double_click", "until", "element_to_be_clickable",
           FALSE, FALSE, <<"double_click">>, "None")

perform_double_click ==
    Method("perform_double_click", "until", "presence_of_element_located",
           FALSE, FALSE, <<"double_click">>, "None")

perform_right_click ==
    Method("perform_right_click", "until", "presence_of_element_located",
           FALSE, FALSE, <<"context_click">>, "None")

Methods ==
    {wait_for_element, click_element, input_text, wait_for_visible_element,
     wait_for_invisible_element, get_element_text, get_element_attribute,
     select_dropdown_option_by_value, is_element_displayed, is_element_clickable,
     switch_to_frame, hover_over_element, scroll_into_view}

\* The three methods that click, and the query whether a click would do.
ClickMethods ==
    {click_element, perform_double_click, perform_right_click, is_element_clickable}

\* The methods on every element the locator matches. acts is what click_elements
\* does to one element and select_multiple_dropdown_options for one option.
wait_for_elements ==
    Method("wait_for_elements", "until", "presence_of_all_elements_located",
           TRUE, FALSE, <<>>, "elements")

click_elements ==
    Method("click_elements", "until", "presence_of_all_elements_located",
           FALSE, FALSE, <<"click">>, "None")

get_element_count ==
    Method("get_element_count", "until", "presence_of_all_elements_located",
           FALSE, FALSE, <<>>, "len")

select_multiple_dropdown_options ==
    Method("select_multiple_dropdown_options", "until", "presence_of_element_located",
           FALSE, FALSE, <<"select_by_visible_text">>, "None")

ListMethods ==
    {wait_for_elements, click_elements, get_element_count,
     select_multiple_dropdown_options, input_text}

\* The methods on two elements: a wait for each, then one pointer gesture.
drag_and_drop ==
    Method("drag_and_drop", "until", "presence_of_element_located",
           FALSE, FALSE, <<"drag_and_drop">>, "None")

hover_and_click ==
    Method("hover_and_click", "until", "presence_of_element_located",
           FALSE, FALSE, <<"move_to_element.click">>, "None")

GestureMethods == {drag_and_drop, hover_and_click}

\* The method waits for a second element after the first.
TwoLocators(o) == o.name \in {"drag_and_drop", "hover_and_click"}

\* The methods on the alert.
wait_for_alert ==
    Method("wait_for_alert", "until", "alert_is_present",
           TRUE, FALSE, <<>>, "alert")

wait_for_alert_to_be_present ==
    Method("wait_for_alert_to_be_present", "until", "alert_is_present",
           TRUE, FALSE, <<>>, "alert")

accept_alert ==
    Method("accept_alert", "until", "alert_is_present",
           FALSE, FALSE, <<"accept">>, "None")

get_alert_text ==
    Method("get_alert_text", "until", "alert_is_present",
           FALSE, FALSE, <<"alert.text">>, "value")

AlertMethods ==
    {wait_for_alert, wait_for_alert_to_be_present, accept_alert, get_alert_text}

NoMethod == Method("", "until", "", FALSE, FALSE, <<>>, "None")

TimeoutArgs == {NoArg} \cup [given : {TRUE}, secs : 0..MaxTimeoutArg]

\* index=None, and the indexes a test passes to click_elements.
NoIndex == [given |-> FALSE, at |-> 0]
IndexArgs == {NoIndex} \cup [given : {TRUE}, at : {-1, 0, MaxMatches - 1}]

\* ------------------------------------------------------ the readiness wait
\* The expected conditions, evaluated on the document as it is at the poll:
\* "element" (the WebElement, truthy), "False", or NoSuchElementException, which
\* find_element raises and WebDriverWait ignores.
presence_of_element_located(d) ==
    IF d.present THEN "element" ELSE "NoSuchElementException"

visibility_of_element_located(d) ==
    IF ~d.present THEN "NoSuchElementException"
    ELSE IF d.visible THEN "element" ELSE "False"

element_to_be_clickable(d) ==
    IF ~d.present THEN "NoSuchElementException"
    ELSE IF d.visible /\ d.enabled THEN "element" ELSE "False"

Eval(ec, d) ==
    CASE ec = "presence_of_element_located" -> presence_of_element_located(d)
      [] ec = "visibility_of_element_located" -> visibility_of_element_located(d)
      [] ec = "element_to_be_clickable" -> element_to_be_clickable(d)

\* A lookup that returns the first matching element only.
first_element_located(n) == IF n > 0 THEN 1 ELSE 0

\* find_elements: the list of the n elements the locator matches, as its
\* length. The empty list is falsy and keeps the wait polling.
presence_of_all_elements_located(n) == n

\* A condition that takes the alert to be there.
alert_assumed_present(a) == "alert"

\* driver.switch_to.alert, or False on NoAlertPresentException.
alert_is_present(a) == IF a THEN "alert" ELSE "False"

\* An until that any list ends, the empty list too.
ConditionOfAnyList(ec) ==
    CASE ec = "presence_of_all_elements_located" -> "element"
      [] ec = "alert_is_present" ->
             IF alert_is_present(alert) = "alert" THEN "element" ELSE "False"
      [] OTHER -> Eval(ec, dom)

\* The value of the expected condition at this moment: of the document, of
\* the elements matching, or of the alert. Any truthy value ends an until.
Condition(ec) ==
    CASE ec = "presence_of_all_elements_located" ->
             IF presence_of_all_elements_located(count) > 0 THEN "element" ELSE "False"
      [] ec = "alert_is_present" ->
             IF alert_is_present(alert) = "alert" THEN "element" ELSE "False"
      [] OTHER -> Eval(ec, dom)

\* The elements the wait returns, as their number.
Found(ec) ==
    IF ec = "presence_of_all_elements_located"
    THEN presence_of_all_elements_located(count)
    ELSE 1

\* Methods that act once, however many elements or options there are.
ActsOnce(o, n, i, k) == o.acts

\* The driver actions of method o once its wait has returned n elements:
\* click_elements clicks elements[index], or every element if index is None;
\* select_multiple_dropdown_options selects once for each of its k options.
Acts(o, n, i, k) ==
    IF o.name = "click_elements"
    THEN (IF i.given THEN o.acts ELSE [j \in 1..n |-> o.acts[1]])
    ELSE IF o.name = "select_multiple_dropdown_options"
    THEN [j \in 1..k |-> o.acts[1]]
    ELSE o.acts

\* window_handles[window_index], elements[index]: a Python list subscript. A
\* negative index counts from the end, and one outside -n..n-1 raises
\* IndexError (position 0 here).
Subscript(i, n) ==
    IF 0 <= i /\ i < n THEN i + 1
    ELSE IF -n <= i /\ i < 0 THEN n + i + 1
    ELSE 0

\* A wait that always runs with the default timeout.
TimeoutIgnoringArg(o, a) == DefaultTimeout

\* The timeout a method waits with: its own timeout parameter where it has one,
\* and where it has none the default of the wait_for_* method it calls.
TimeoutOf(o, a) == IF a.given THEN a.secs ELSE DefaultTimeout

\* end_time = time.monotonic() + self._timeout
EndTime(start, secs) == start + secs * TicksPerSecond

\* A wait that gives up after the first failed poll.
GivesUpAfterFirstPoll(t, end) == TRUE

\* if time.monotonic() > end_time: break
TimedOut(t, end) == t > end

\* A second wait that runs on what is left of the first wait's time.
SharedEndTime(t, end) == end

\* The second self.wait_for_element: a WebDriverWait of its own, whose
\* end_time is counted from the moment t the first wait returned.
SecondEndTime(t, end) == EndTime(t, DefaultTimeout)

\* A page object that keeps the element of an earlier call and uses it again.
ResolveCached(found, cached) == IF cached.gen # 0 THEN cached ELSE found

\* element = self.wait_for_element(by, value): the element acted on is the one
\* this call's wait found; the page object has no other (cached) to offer.
Resolve(found, cached) == found

\* ------------------------------------------------------------------- Init
\* self.driver = driver, and no other attribute.
InitSelf == self = [driver |-> "session", others |-> {}]

InitWait ==
    /\ dom \in {d \in DomStates : d.gen = (IF d.present THEN 1 ELSE 0)}
    /\ pc = "idle"
    /\ op = NoMethod
    /\ arg = NoArg
    /\ now = 0
    /\ endTime = 0
    /\ handle = NoHandle
    /\ log = <<>>
    /\ outcome = "none"
    /\ result = "None"
    /\ count = (IF dom.present THEN 1 ELSE 0)
    /\ alert = FALSE
    /\ elements = 0
    /\ index = NoIndex
    /\ options = 0
    /\ number = 0
    /\ dom2 = Absent(0)
    /\ stage = 1
    /\ handle2 = NoHandle
    /\ everSecond = FALSE
    /\ secondStart = 0
    /\ prev = NoHandle
    /\ everPresent = FALSE
    /\ everVisible = FALSE
    /\ waitTimedOut = FALSE
    /\ waitReturned = FALSE
    /\ everAlert = FALSE
    /\ firstGen = 0

\* ---------------------------------------------------------------- actions
\* The history of the wait in progress, after the document became d.
Observe(d) ==
    IF pc \in {"poll", "sleep"}
    THEN /\ everPresent' = (everPresent \/ d.present)
         /\ everVisible' = (everVisible \/ (d.present /\ d.visible))
    ELSE UNCHANGED <<everPresent, everVisible>>

\* The document changes: the first element the locator matches becomes d, and
\* n elements match.
Render(d, n) ==
    /\ dom' = d
    /\ count' = n
    /\ Observe(d)
    /\ UNCHANGED <<pc, op, arg, now, endTime, handle, log, outcome, result,
                   alert, elements, index, options, number, prev, waitTimedOut,
                   waitReturned, everAlert, firstGen, secondVars>>
    /\ UNCHANGED <<winVars, cookieVars, fileVars, selectVars, sessionVars, self>>

\* The first matching element changes; those after it stay.
DomStep(d) == Render(d, IF ~d.present THEN 0 ELSE IF count > 0 THEN count ELSE 1)

\* The page renders: an element matching the locator is attached, detached,
\* shown, hidden, enabled or disabled, at any moment of a call or between calls.
Appear ==
    /\ ~dom.present
    /\ dom.gen < MaxGen
    /\ \E v \in BOOLEAN, e \in BOOLEAN :
          DomStep([present |-> TRUE, visible |-> v, enabled |-> e, gen |-> dom.gen + 1])

Vanish ==
    /\ dom.present
    /\ DomStep(Absent(dom.gen))

SetVisible ==
    /\ dom.present
    /\ DomStep([dom EXCEPT !.visible = ~dom.visible])

SetEnabled ==
    /\ dom.present
    /\ DomStep([dom EXCEPT !.enabled = ~dom.enabled])

\* The page renders a list: one more element matches the locator (the first
\* one, when none did), or the last of them is detached.
Attach ==
    /\ count < MaxMatches
    /\ count = 0 => dom.gen < MaxGen
    /\ Render(IF count = 0
              THEN [present |-> TRUE, visible |-> TRUE, enabled |-> TRUE,
                    gen |-> dom.gen + 1]
              ELSE dom,
              count + 1)

Detach ==
    /\ count > 0
    /\ Render(IF count = 1 THEN Absent(dom.gen) ELSE dom, count - 1)

\* The page renders the element of the second locator: it is attached or
\* detached, at any moment of a call or between calls.
SecondStep(d) ==
    /\ dom2' = d
    /\ everSecond' = (IF stage = 2 /\ pc \in {"poll", "sleep"}
                      THEN everSecond \/ d.present
                      ELSE everSecond)
    /\ UNCHANGED <<dom, pc, op, arg, now, endTime, handle, log, outcome, result,
                   count, alert, elements, index, options, number, stage, handle2,
                   secondStart, prev, everPresent, everVisible, waitTimedOut,
                   waitReturned, everAlert, firstGen>>
    /\ UNCHANGED <<winVars, cookieVars, fileVars, selectVars, sessionVars, self>>

SecondAppears ==
    /\ ~dom2.present
    /\ dom2.gen < MaxRenders
    /\ SecondStep([present |-> TRUE, visible |-> TRUE, enabled |-> TRUE,
                   gen |-> dom2.gen + 1])

SecondVanishes ==
    /\ dom2.present
    /\ SecondStep(Absent(dom2.gen))

\* The first element is attached, displayed and enabled, as the second is.
FirstAppears ==
    /\ ~dom.present
    /\ dom.gen < MaxRenders
    /\ DomStep([present |-> TRUE, visible |-> TRUE, enabled |-> TRUE,
                gen |-> dom.gen + 1])

\* The page opens an alert, or the alert goes away.
AlertStep(a) ==
    /\ alert' = a
    /\ everAlert' = (IF pc \in {"poll", "sleep"} THEN everAlert \/ a ELSE everAlert)
    /\ UNCHANGED <<dom, pc, op, arg, now, endTime, handle, log, outcome, result,
                   count, elements, index, options, number, prev, everPresent,
                   everVisible, waitTimedOut, waitReturned, firstGen, secondVars>>
    /\ UNCHANGED <<winVars, cookieVars, fileVars, selectVars, sessionVars, self>>

AlertOpens == ~alert /\ AlertStep(TRUE)

AlertCloses == alert /\ AlertStep(FALSE)

\* A page object whose methods keep the element they found in an attribute.
SelfKeepingElement(s) == [s EXCEPT !.others = s.others \cup {"element"}]

\* The attributes of the page object after a call of any of its methods: no
\* method body assigns to self.
SelfAfterCall(s) == s

\* A test calls facade method o, passing timeout a.secs when a.given, index i
\* (click_elements) and k option texts (select_multiple_dropdown_options). A
\* method whose signature has no timeout parameter rejects one (Python's
\* TypeError) before its body runs; otherwise the body starts its WebDriverWait.
CallWith(o, a, i, k) ==
    /\ pc \in {"idle", "done"}
    /\ op' = o
    /\ arg' = a
    /\ index' = i
    /\ options' = k
    /\ now' = 0
    /\ handle' = NoHandle
    /\ elements' = 0
    /\ number' = 0
    /\ log' = <<>>
    /\ result' = "None"
    /\ prev' = IF handle.gen # 0 THEN [gen |-> handle.gen, fresh |-> FALSE] ELSE prev
    /\ waitTimedOut' = FALSE
    /\ waitReturned' = FALSE
    /\ firstGen' = (IF dom.present THEN dom.gen ELSE dom.gen + 1)
    /\ everPresent' = dom.present
    /\ everVisible' = (dom.present /\ dom.visible)
    /\ everAlert' = alert
    /\ stage' = 1
    /\ handle2' = NoHandle
    /\ everSecond' = FALSE
    /\ secondStart' = 0
    /\ self' = SelfAfterCall(self)
    /\ IF a.given /\ ~o.hasTimeout
       THEN /\ pc' = "done"
            /\ outcome' = "TypeError"
            /\ endTime' = 0
       ELSE /\ pc' = "poll"
            /\ outcome' = "none"
            /\ endTime' = EndTime(0, TimeoutOf(o, a))
    /\ UNCHANGED <<dom, count, alert, dom2>>
    /\ UNCHANGED <<winVars, cookieVars, fileVars, selectVars, sessionVars>>

Call(o, a) == CallWith(o, a, NoIndex, 0)

\* The method returns r (its wait succeeded and it has nothing left to do).
Return(r) ==
    /\ pc' = "done"
    /\ outcome' = "returned"
    /\ result' = r

\* value = method(self._driver): one evaluation of the expected condition,
\* taking d ticks. until returns a truthy value; until_not returns a falsy
\* value, and True when the condition raised NoSuchElementException. A method
\* on two elements starts its second wait when the first has returned.
Poll(d) ==
    /\ pc = "poll"
    /\ now' = now + d
    /\ LET second == TwoLocators(op) /\ stage = 2
           v == IF second THEN presence_of_element_located(dom2)
                          ELSE Condition(op.ec)
           n == Found(op.ec)
           element == [gen |-> dom.gen, fresh |-> TRUE]
           element2 == [gen |-> dom2.gen, fresh |-> TRUE]
       IN  IF op.wait = "until"
           THEN IF v = "element"
                THEN IF TwoLocators(op) /\ stage = 1
                     THEN /\ handle' = Resolve(element, prev)
                          /\ stage' = 2
                          /\ endTime' = SecondEndTime(now', endTime)
                          /\ secondStart' = now'
                          /\ everSecond' = dom2.present
                          /\ UNCHANGED <<pc, handle2, elements, waitReturned,
                                         number, outcome, result>>
                     ELSE /\ IF second
                             THEN handle2' = element2 /\ UNCHANGED handle
                             ELSE handle' = Resolve(element, prev) /\ UNCHANGED handle2
                          /\ elements' = n
                          /\ waitReturned' = TRUE
                          /\ number' = (IF op.ret = "len" THEN n ELSE number)
                          /\ IF Acts(op, n, index, options) = <<>>
                             THEN Return(op.ret)
                             ELSE /\ pc' = "act"
                                  /\ UNCHANGED <<outcome, result>>
                          /\ UNCHANGED <<stage, endTime, secondStart, everSecond>>
                ELSE /\ pc' = "sleep"
                     /\ UNCHANGED <<handle, elements, waitReturned, number,
                                    outcome, result, endTime, handle2, stage,
                                    secondStart, everSecond>>
           ELSE IF v = "element"
                THEN /\ pc' = "sleep"
                     /\ UNCHANGED <<handle, elements, waitReturned, number,
                                    outcome, result, endTime, handle2, stage,
                                    secondStart, everSecond>>
                ELSE /\ Return(IF v = "False" THEN "False" ELSE "True")
                     /\ waitReturned' = TRUE
                     /\ UNCHANGED <<handle, elements, number, endTime, handle2,
                                    stage, secondStart, everSecond>>
    /\ UNCHANGED <<dom, dom2, op, arg, log, count, alert, index, options,
                   prev, everPresent, everVisible, waitTimedOut, everAlert,
                   firstGen>>
    /\ UNCHANGED <<winVars, cookieVars, fileVars, selectVars, sessionVars, self>>

\* A sleep that returns at once.
NoSleep(s) == 0

\* time.sleep(self._poll): the poll interval, and s ticks more.
Slept(s) == PollTicks + s

\* time.sleep(self._poll), s ticks longer than asked, then the deadline test:
\* past end_time the wait raises TimeoutException, which is_element_displayed
\* and is_element_clickable catch (return False) and every other method lets
\* through to its caller.
Sleep(s) ==
    /\ pc = "sleep"
    /\ now' = now + Slept(s)
    /\ IF TimedOut(now', endTime)
       THEN /\ waitTimedOut' = TRUE
            /\ pc' = "done"
            /\ IF op.catches
               THEN /\ outcome' = "returned"
                    /\ result' = "False"
               ELSE /\ outcome' = "TimeoutException"
                    /\ UNCHANGED result
       ELSE /\ pc' = "poll"
            /\ UNCHANGED <<waitTimedOut, outcome, result>>
    /\ UNCHANGED <<dom, op, arg, endTime, handle, log, count, alert, elements,
                   index, options, number, prev, everPresent, everVisible,
                   waitReturned, everAlert, firstGen, secondVars>>
    /\ UNCHANGED <<winVars, cookieVars, fileVars, selectVars, sessionVars, self>>

\* The WebElement no longer refers to an element of the document.
Stale(h, d) == ~d.present \/ d.gen # h.gen

\* What the method returns after its last driver action, read from the element.
Ret(o, d) ==
    IF o.ret = "displayed" THEN (IF d.visible THEN "True" ELSE "False") ELSE o.ret

\* The position, in the list of n elements the wait returned, of the element
\* the j-th driver action is on: elements[index] (0 for an IndexError) or the
\* j-th element of the loop in click_elements, the one element elsewhere.
Target(o, n, i, j) ==
    IF o.name = "click_elements"
    THEN (IF i.given THEN Subscript(i.at, n) ELSE j)
    ELSE 1

\* The actions through which the user would touch the element: the driver may
\* refuse them (ElementNotInteractableException) on an element not displayed.
Interactions ==
    {"click", "clear", "send_keys", "double_click", "context_click",
     "move_to_element", "select_by_value", "select_by_visible_text"}

\* The next driver action of the method. On the alert the wait returned: it
\* raises NoAlertPresentException when the alert has gone. On an element the
\* wait returned: elements[index] raises IndexError outside the list, and the
\* action raises StaleElementReferenceException when the element was detached
\* since; otherwise the action is issued. No method catches any of these.
\* After the last action the method returns.
Act ==
    /\ pc = "act"
    /\ LET acts == Acts(op, elements, index, options)
           j == Len(log) + 1
           t == Target(op, elements, index, j)
           issued == Append(log, [act |-> acts[j], gen |-> handle.gen,
                                  fresh |-> handle.fresh])
           Finish == IF j = Len(acts)
                     THEN Return(Ret(op, dom))
                     ELSE UNCHANGED <<pc, outcome, result>>
           Raise(e) == /\ pc' = "done"
                       /\ outcome' = e
                       /\ UNCHANGED result
       IN  IF op.ec = "alert_is_present"
           THEN IF ~alert
                THEN Raise("NoAlertPresentException") /\ UNCHANGED <<log, alert>>
                ELSE /\ log' = issued
                     /\ alert' = (acts[j] # "accept")
                     /\ Finish
           ELSE /\ UNCHANGED alert
                /\ IF t = 0
                   THEN Raise("IndexError") /\ UNCHANGED log
                   ELSE IF \/ Stale(handle, dom)
                           \/ count < t
                           \/ TwoLocators(op) /\ Stale(handle2, dom2)
                   THEN Raise("StaleElementReferenceException") /\ UNCHANGED log
                   ELSE /\ log' = issued
                        /\ \/ Finish
                           \/ /\ acts[j] \in Interactions
                              /\ ~dom.visible
                              /\ Raise("ElementNotInteractableException")
    /\ UNCHANGED <<dom, op, arg, now, endTime, handle, count, elements, index,
                   options, number, prev, everPresent, everVisible, waitTimedOut,
                   waitReturned, everAlert, firstGen, secondVars>>
    /\ UNCHANGED <<winVars, cookieVars, fileVars, selectVars, sessionVars, self>>

\* ------------------------------------------------------------- windows
Chars == {"a", "b"}

\* The strings of at most n characters.
RECURSIVE StringsUpTo(_)
StringsUpTo(n) ==
    IF n = 0 THEN {<<>>}
    ELSE LET shorter == StringsUpTo(n - 1)
         IN  shorter \cup {Append(t, c) : t \in shorter, c \in Chars}

\* The documents a window may show.
Titles == {<<"a">>, <<"b", "a">>}
Urls == {<<"a", "b">>, <<"b">>}
Pages == [title : Titles, url : Urls]

\* The texts searched for: every string no longer than the longest title.
Strings == StringsUpTo(2)

\* A window that is not open shows no document.
NoPage == [title |-> <<>>, url |-> <<>>]

WindowIds == 1..MaxWindows

Range(q) == {q[i] : i \in 1..Len(q)}

\* Python's "needle in text" on strings: needle is a substring of text.
Contains(needle, text) ==
    \E i \in 0..(Len(text) - Len(needle)) :
        SubSeq(text, i + 1, i + Len(needle)) = needle

\* A comparison of the whole title instead of a substring test.
TitleEquals(needle, p) == needle = p.title

\* if window_title in self.driver.title
TitleMatches(needle, p) == Contains(needle, p.title)

\* if window_url in self.driver.current_url
UrlMatches(needle, p) == Contains(needle, p.url)

Matches(name, needle, p) ==
    IF name = "switch_to_window_by_title" THEN TitleMatches(needle, p)
    ELSE UrlMatches(needle, p)

\* for handle in self.driver.window_handles: if handle != current_handle:
\* switch to it, and return if its title (URL) contains the text. The loop
\* from position i on, with the session focused on f and having switched to
\* the windows of seen: [found, focus, seen] as the loop ends.
RECURSIVE SearchFrom(_, _, _, _, _, _, _)
SearchFrom(name, needle, hs, pg, current, i, st) ==
    IF i > Len(hs) THEN [found |-> FALSE, focus |-> st.focus, seen |-> st.seen]
    ELSE IF hs[i] = current THEN SearchFrom(name, needle, hs, pg, current, i + 1, st)
    ELSE LET st2 == [focus |-> hs[i], seen |-> Append(st.seen, hs[i])]
         IN  IF Matches(name, needle, pg[hs[i]])
             THEN [found |-> TRUE, focus |-> st2.focus, seen |-> st2.seen]
             ELSE SearchFrom(name, needle, hs, pg, current, i + 1, st2)

\* A range test that also rejects negative indexes.
IndexAcceptedFromZero(i, n) == 0 <= i /\ i < n

\* if window_index < len(window_handles)
IndexAccepted(i, n) == i < n

NoWop == [name |-> "", index |-> 0, text |-> <<>>]

WinCall(name, i, t) ==
    /\ wop' = [name |-> name, index |-> i, text |-> t]
    /\ startCur' = cur
    /\ self' = SelfAfterCall(self)
    /\ UNCHANGED <<waitVars, cookieVars, fileVars, selectVars, sessionVars>>

\* switch_to_window_by_index(window_index)
switch_to_window_by_index(i) ==
    /\ WinCall("switch_to_window_by_index", i, <<>>)
    /\ LET n == Len(handles)
           k == Subscript(i, n)
       IN  IF IndexAccepted(i, n) /\ k # 0
           THEN /\ cur' = handles[k]
                /\ examined' = <<handles[k]>>
                /\ woutcome' = "returned"
           ELSE /\ woutcome' = "IndexError"
                /\ examined' = <<>>
                /\ UNCHANGED cur
    /\ UNCHANGED <<handles, page>>

\* A search that switches back to the window it started from before it fails.
FocusRestoredOnFailure(r, current) == IF r.found THEN r.focus ELSE current

\* return, or raise NoSuchWindowException(...) after the loop: the session
\* stays focused on the window of the loop's last switch_to.window(handle);
\* current_handle is not used again.
FocusAfterSearch(r, current) == r.focus

\* switch_to_window_by_title(window_title) and switch_to_window_by_url(window_url).
\* self.driver.current_window_handle raises NoSuchWindowException when the
\* focused window has been closed.
SwitchBySearch(name, needle) ==
    /\ WinCall(name, 0, needle)
    /\ IF cur \notin Range(handles)
       THEN /\ woutcome' = "NoSuchWindowException"
            /\ examined' = <<>>
            /\ UNCHANGED cur
       ELSE LET r == SearchFrom(name, needle, handles, page, cur, 1,
                                [focus |-> cur, seen |-> <<>>])
            IN  /\ cur' = FocusAfterSearch(r, cur)
                /\ examined' = r.seen
                /\ woutcome' = IF r.found THEN "returned" ELSE "NoSuchWindowException"
    /\ UNCHANGED <<handles, page>>

switch_to_window_by_title(needle) ==
    SwitchBySearch("switch_to_window_by_title", needle)

switch_to_window_by_url(needle) ==
    SwitchBySearch("switch_to_window_by_url", needle)

\* close_browser: self.driver.close() closes the focused window and leaves the
\* session focused on it. (Closing the last window ends the session.)
close_browser ==
    /\ Len(handles) > 1
    /\ WinCall("close_browser", 0, <<>>)
    /\ examined' = <<>>
    /\ IF cur \in Range(handles)
       THEN /\ handles' = SelectSeq(handles, LAMBDA h : h # cur)
            /\ page' = [page EXCEPT ![cur] = NoPage]
            /\ woutcome' = "returned"
       ELSE /\ woutcome' = "NoSuchWindowException"
            /\ UNCHANGED <<handles, page>>
    /\ UNCHANGED cur

InitWindows ==
    /\ \E n \in 1..MaxWindows :
          /\ handles = [i \in 1..n |-> i]
          /\ cur \in 1..n
          /\ page \in {p \in [WindowIds -> Pages \cup {NoPage}] :
                          \A i \in WindowIds : p[i] = NoPage <=> i > n}
    /\ wop = NoWop
    /\ woutcome = "none"
    /\ examined = <<>>
    /\ startCur = cur

\* -------------------------------------------------------------- cookies
CookieNames == {"sid", "lang", "theme"}
CookieValues == {"x", "y"}

\* The dictionaries a test passes to add_cookie.
CookieDicts == [name : CookieNames, value : CookieValues]

\* get_cookie's None.
NoCookie == [name |-> "", value |-> "", path |-> ""]

\* The browser stores a cookie under its name, with the attributes the caller
\* left out filled in, and replaces the cookie of the same name.
Stored(c) == [name |-> c.name, value |-> c.value, path |-> "/"]

DriverAddCookie(j, c) == {k \in j : k.name # c.name} \cup {Stored(c)}

DriverGetCookie(j, n) ==
    IF \E k \in j : k.name = n THEN CHOOSE k \in j : k.name = n ELSE NoCookie

\* A facade that hands over the name and loses the value.
AddCookieArgNameOnly(cookie_dict) == [name |-> cookie_dict.name, value |-> ""]

\* self.driver.add_cookie(cookie_dict): the dictionary is handed over as given.
AddCookieArg(cookie_dict) == cookie_dict

\* return self.driver.get_cookie(cookie_name)
GetCookieResult(j, cookie_name) == DriverGetCookie(j, cookie_name)

NoCop == [name |-> "", cookie |-> [name |-> "", value |-> ""]]

CookieCall(name, c) ==
    /\ cop' = [name |-> name, cookie |-> c]
    /\ prevCop' = cop
    /\ prevJar' = jar
    /\ self' = SelfAfterCall(self)
    /\ UNCHANGED <<waitVars, winVars, fileVars, selectVars, sessionVars>>

add_cookie(c) ==
    /\ CookieCall("add_cookie", c)
    /\ jar' = DriverAddCookie(jar, AddCookieArg(c))
    /\ cres' = NoCookie

get_cookie(n) ==
    /\ CookieCall("get_cookie", [name |-> n, value |-> ""])
    /\ cres' = GetCookieResult(jar, n)
    /\ UNCHANGED jar

delete_cookie(n) ==
    /\ CookieCall("delete_cookie", [name |-> n, value |-> ""])
    /\ jar' = {k \in jar : k.name # n}
    /\ cres' = NoCookie

delete_all_cookies ==
    /\ CookieCall("delete_all_cookies", NoCop.cookie)
    /\ jar' = {}
    /\ cres' = NoCookie

InitCookies ==
    /\ jar = {}
    /\ cop = NoCop
    /\ cres = NoCookie
    /\ prevJar = {}
    /\ prevCop = NoCop

\* ---------------------------------------------------------------- files
FilePaths == {"shot.png", "file.zip", "out.bin"}
FileUrls == {"u1", "u2"}
Contents == {"v1", "v2"}

NoFop == [name |-> "", url |-> "", path |-> ""]

\* driver.save_screenshot(filename) writes a PNG image of the page to filename.
SaveScreenshot(fs, filename) == [fs EXCEPT ![filename] = "png"]

FileCall(name, u, p) ==
    /\ fop' = [name |-> name, url |-> u, path |-> p]
    /\ foutcome' = "returned"
    /\ self' = SelfAfterCall(self)
    /\ UNCHANGED served
    /\ UNCHANGED <<waitVars, winVars, cookieVars, selectVars, sessionVars>>

capture_screenshot(filename) ==
    /\ FileCall("capture_screenshot", "", filename)
    /\ files' = SaveScreenshot(files, filename)

take_screenshot(filename) ==
    /\ FileCall("take_screenshot", "", filename)
    /\ files' = SaveScreenshot(files, filename)

\* download_file(url, destination_path): the body is two comments and pass.
download_file(url, destination_path) ==
    /\ FileCall("download_file", url, destination_path)
    /\ UNCHANGED files

NoFiles ==
    /\ files = [p \in FilePaths |-> "none"]
    /\ fop = NoFop
    /\ foutcome = "none"

InitFiles ==
    /\ NoFiles
    /\ served \in [FileUrls -> Contents]

NoFileCall ==
    /\ NoFiles
    /\ served = [u \in FileUrls |-> "v1"]

\* ------------------------------------------------------------- dropdowns
OptionValues == <<"A", "B", "C">>
Labels == {"A", "B", "C"}

\* The <select> elements of three options whose value attributes are A, B, C,
\* with any visible texts.
Dropdowns ==
    {[multiple |-> m,
      options |-> [i \in 1..Len(OptionValues) |->
                      [value |-> OptionValues[i], text |-> t[i]]]] :
        m \in BOOLEAN, t \in [1..Len(OptionValues) -> Labels]}

Least(S) == CHOOSE i \in S : \A j \in S : i <= j

\* Select.select_by_value(value) and Select.select_by_visible_text(text), on
\* the options at the positions hits that carry the value or text: a
\* multiple select gets all of them selected in addition to those selected
\* already, another one gets the first of them selected instead of the one
\* selected.
SelectHits(dd, sel, hits) ==
    IF dd.multiple THEN sel \cup hits ELSE {Least(hits)}

ByValue(dd, v) == {i \in 1..Len(dd.options) : dd.options[i].value = v}

ByVisibleText(dd, t) == {i \in 1..Len(dd.options) : dd.options[i].text = t}

\* Select.first_selected_option: the first option, in document order, that is
\* selected (position 0: none is, NoSuchElementException).
FirstSelectedOption(sel) == IF sel = {} THEN 0 ELSE Least(sel)

\* A read of the option's value attribute instead of its text.
OptionValue(o) == o.value

\* select.first_selected_option.text: the visible text of the option.
OptionText(o) == o.text

NoSop == [name |-> "", arg |-> "", outcome |-> "none"]

SelectCall(name, a, out) ==
    /\ sop' = [name |-> name, arg |-> a, outcome |-> out]
    /\ prevSop' = sop
    /\ prevPicked' = picked
    /\ self' = SelfAfterCall(self)
    /\ UNCHANGED dropdown
    /\ UNCHANGED <<waitVars, winVars, cookieVars, fileVars, sessionVars>>

\* The dropdown methods, called while the dropdown is in the document, so that
\* wait_for_element returns it at the first poll.
SelectOption(name, a, hits) ==
    IF hits = {}
    THEN /\ SelectCall(name, a, "NoSuchElementException")
         /\ UNCHANGED <<picked, sres>>
    ELSE /\ SelectCall(name, a, "returned")
         /\ picked' = SelectHits(dropdown, picked, hits)
         /\ sres' = "None"

\* select_dropdown_option_by_value(by, value, option_value)
SelectDropdownOptionByValue(option_value) ==
    SelectOption("select_dropdown_option_by_value", option_value,
                 ByValue(dropdown, option_value))

select_dropdown_option_by_visible_text(option_text) ==
    SelectOption("select_dropdown_option_by_visible_text", option_text,
                 ByVisibleText(dropdown, option_text))

get_selected_option_text ==
    LET i == FirstSelectedOption(picked)
    IN  /\ UNCHANGED picked
        /\ IF i = 0
           THEN /\ SelectCall("get_selected_option_text", "", "NoSuchElementException")
                /\ UNCHANGED sres
           ELSE /\ SelectCall("get_selected_option_text", "", "returned")
                /\ sres' = OptionText(dropdown.options[i])

\* A dropdown as the browser first shows it: a multiple select with nothing
\* selected, another one with its first option selected.
InitSelect ==
    /\ dropdown \in Dropdowns
    /\ picked = (IF dropdown.multiple THEN {} ELSE {1})
    /\ sop = NoSop
    /\ sres = "None"
    /\ prevSop = NoSop
    /\ prevPicked = picked

NoSelectCall ==
    /\ dropdown = [multiple |-> FALSE,
                   options |-> [i \in 1..Len(OptionValues) |->
                                   [value |-> OptionValues[i], text |-> OptionValues[i]]]]
    /\ picked = {1}
    /\ sop = NoSop
    /\ sres = "None"
    /\ prevSop = NoSop
    /\ prevPicked = {1}

\* ---------------------------------------------------- the setup fixture
BrowserNames == {"chrome", "firefox", "edge", "safari"}

NoSession == [driver |-> "", options |-> "", headless |-> FALSE, browser |-> ""]

\* The branch of setup taken for BROWSER_NAME b ("" for the else branch), the
\* options object it builds and the driver class it constructs with it.
Branch(b) == IF b \in {"chrome", "firefox", "edge"} THEN b ELSE ""

OptionsOf(b) ==
    CASE b = "chrome" -> "ChromeOptions"
      [] b = "firefox" -> "FirefoxOptions"
      [] b = "edge" -> "EdgeOptions"

DriverOf(b) ==
    CASE b = "chrome" -> "Chrome"
      [] b = "firefox" -> "Chrome"
      [] b = "edge" -> "Chrome"

\* The browser a driver class drives, and the one an options class describes.
BrowserOfDriver(d) == IF d = "Chrome" THEN "chrome" ELSE ""

BrowserOfOptions(o) ==
    CASE o = "ChromeOptions" -> "chrome"
      [] o = "FirefoxOptions" -> "firefox"
      [] o = "EdgeOptions" -> "edge"

\* setup, up to its yield: the branch for BrowserConfig.BROWSER_NAME builds its
\* options and constructs the driver, and any other name raises ValueError.
\* A driver class given the options of another browser starts its own
\* browser or the one of the options, or fails to create the session,
\* depending on the installed Selenium and drivers.
setup ==
    /\ phase = "new"
    /\ LET b == Branch(config.browser)
       IN  IF b = ""
           THEN /\ phase' = "failed"
                /\ setupOutcome' = "ValueError"
                /\ UNCHANGED session
           ELSE \/ /\ \E started \in {BrowserOfDriver(DriverOf(b)),
                                      BrowserOfOptions(OptionsOf(b))} :
                         session' = [driver |-> DriverOf(b), options |-> OptionsOf(b),
                                     headless |-> config.headless, browser |-> started]
                   /\ phase' = "test"
                   /\ setupOutcome' = "yielded"
                \/ /\ BrowserOfDriver(DriverOf(b)) # BrowserOfOptions(OptionsOf(b))
                   /\ phase' = "failed"
                   /\ setupOutcome' = "SessionNotCreatedException"
                   /\ UNCHANGED session
    /\ UNCHANGED config
    /\ UNCHANGED <<waitVars, winVars, cookieVars, fileVars, selectVars, self>>

\* setup after its yield, when the test has ended: driver.quit().
teardown ==
    /\ phase = "test"
    /\ phase' = "closed"
    /\ session' = NoSession
    /\ UNCHANGED <<config, setupOutcome>>
    /\ UNCHANGED <<waitVars, winVars, cookieVars, fileVars, selectVars, self>>

InitSession ==
    /\ config \in [browser : BrowserNames, headless : BOOLEAN]
    /\ phase = "new"
    /\ session = NoSession
    /\ setupOutcome = "none"

\* A test that has been given a Chrome session by the fixture.
InSession ==
    /\ config = [browser |-> "chrome", headless |-> FALSE]
    /\ phase = "test"
    /\ session = [driver |-> "Chrome", options |-> "ChromeOptions",
                  headless |-> FALSE, browser |-> "chrome"]
    /\ setupOutcome = "yielded"

\* ------------------------------------------------------- specifications
\* A session with one window and no cookie, in which tests call the
\* element methods while the page renders.
OneWindow ==
    /\ handles = <<1>>
    /\ cur = 1
    /\ page = [i \in WindowIds |->
                  IF i = 1 THEN [title |-> <<"a">>, url |-> <<"b">>] ELSE NoPage]
    /\ wop = NoWop
    /\ woutcome = "none"
    /\ examined = <<>>
    /\ startCur = 1

NoElementCall ==
    /\ dom = Absent(0)
    /\ pc = "idle"
    /\ op = NoMethod
    /\ arg = NoArg
    /\ now = 0
    /\ endTime = 0
    /\ handle = NoHandle
    /\ log = <<>>
    /\ outcome = "none"
    /\ result = "None"
    /\ prev = NoHandle
    /\ everPresent = FALSE
    /\ everVisible = FALSE
    /\ waitTimedOut = FALSE
    /\ firstGen = 0
    /\ count = 0
    /\ alert = FALSE
    /\ elements = 0
    /\ index = NoIndex
    /\ options = 0
    /\ number = 0
    /\ dom2 = Absent(0)
    /\ stage = 1
    /\ handle2 = NoHandle
    /\ everSecond = FALSE
    /\ secondStart = 0
    /\ waitReturned = FALSE
    /\ everAlert = FALSE

\* What a specification leaves alone: no file method, dropdown method or
\* fixture step has run, in a Chrome session the fixture has yielded.
Rest == NoFileCall /\ NoSelectCall /\ InSession /\ InitSelf

Init == InitWait /\ OneWindow /\ InitCookies /\ Rest

\* The calls tests make: every method as declared, the methods that have a
\* timeout parameter with a timeout, and two of those that have none with one.
Calls ==
    {c \in Methods \X TimeoutArgs :
        c[2].given => \/ c[1].hasTimeout
                      \/ c[1].name \in {"click_element", "is_element_displayed"}}

Next ==
    \/ Appear
    \/ Vanish
    \/ SetVisible
    \/ SetEnabled
    \/ \E c \in Calls : Call(c[1], c[2])
    \/ \E d \in 0..MaxFindTicks : Poll(d)
    \/ \E s \in 0..MaxOversleep : Sleep(s)
    \/ Act

Spec == Init /\ [][Next]_vars

\* The same session, in which tests call the click methods and
\* is_element_clickable.
ClickNext ==
    \/ Appear
    \/ Vanish
    \/ SetVisible
    \/ SetEnabled
    \/ \E o \in ClickMethods, a \in TimeoutArgs :
          /\ a.given => o.hasTimeout
          /\ Call(o, a)
    \/ \E d \in 0..MaxFindTicks : Poll(d)
    \/ \E s \in 0..MaxOversleep : Sleep(s)
    \/ Act

ClickSpec == Init /\ [][ClickNext]_vars

\* A session in which tests call the readiness waits themselves, and a wait
\* in progress is not suspended for ever: the thread running WebDriverWait's
\* loop goes on to its next poll, each driver query returns, and the thread
\* returns from its sleep.
WaitMethods ==
    {wait_for_element, wait_for_visible_element, wait_for_invisible_element,
     wait_for_elements}

WaitNext ==
    \/ Appear
    \/ Vanish
    \/ SetVisible
    \/ SetEnabled
    \/ \E o \in WaitMethods, a \in TimeoutArgs : Call(o, a)
    \/ \E d \in 0..MaxFindTicks : Poll(d)
    \/ \E s \in 0..MaxOversleep : Sleep(s)

FairSpec ==
    /\ Init
    /\ [][WaitNext]_vars
    /\ WF_vars(\E d \in 0..MaxFindTicks : Poll(d))
    /\ WF_vars(\E s \in 0..MaxOversleep : Sleep(s))

\* A session with any windows, in which tests call the window methods.
WindowInit == NoElementCall /\ InitWindows /\ InitCookies /\ Rest

WindowNext ==
    \/ \E i \in -(MaxWindows + 1)..(MaxWindows + 1) : switch_to_window_by_index(i)
    \/ \E t \in Strings : switch_to_window_by_title(t)
    \/ \E u \in Strings : switch_to_window_by_url(u)
    \/ close_browser

WindowSpec == WindowInit /\ [][WindowNext]_vars

\* A session in which tests call the cookie methods.
CookieInit == NoElementCall /\ OneWindow /\ InitCookies /\ Rest

CookieNext ==
    \/ \E c \in CookieDicts : add_cookie(c)
    \/ \E n \in CookieNames : get_cookie(n)
    \/ \E n \in CookieNames : delete_cookie(n)
    \/ delete_all_cookies

CookieSpec == CookieInit /\ [][CookieNext]_vars

\* A session in which tests call the methods on lists of elements, and the
\* methods on one element that perform one or several actions, while the
\* page renders the list.
ListInit == NoElementCall /\ OneWindow /\ InitCookies /\ Rest

ListNext ==
    \/ Attach
    \/ Detach
    \/ \E a \in TimeoutArgs : Call(wait_for_elements, a)
    \/ Call(get_element_count, NoArg)
    \/ \E i \in IndexArgs : CallWith(click_elements, NoArg, i, 0)
    \/ \E k \in 0..MaxOptions :
          CallWith(select_multiple_dropdown_options, NoArg, NoIndex, k)
    \/ Call(input_text, NoArg)
    \/ \E d \in 0..MaxFindTicks : Poll(d)
    \/ \E s \in 0..MaxOversleep : Sleep(s)
    \/ Act

ListSpec == ListInit /\ [][ListNext]_vars

\* A session in which tests call the methods on two elements, while the page
\* attaches and detaches each of the two, displayed and enabled.
GestureInit == NoElementCall /\ OneWindow /\ InitCookies /\ Rest

GestureNext ==
    \/ FirstAppears
    \/ Vanish
    \/ SecondAppears
    \/ SecondVanishes
    \/ Call(drag_and_drop, NoArg)
    \/ Call(hover_and_click, NoArg)
    \/ \E d \in 0..MaxFindTicks : Poll(d)
    \/ \E s \in 0..MaxOversleep : Sleep(s)
    \/ Act

GestureSpec == GestureInit /\ [][GestureNext]_vars

\* A session in which tests call the alert methods while the page opens and
\* closes an alert.
AlertInit == NoElementCall /\ OneWindow /\ InitCookies /\ Rest

AlertNext ==
    \/ AlertOpens
    \/ AlertCloses
    \/ \E o \in AlertMethods, a \in TimeoutArgs : Call(o, a)
    \/ \E d \in 0..MaxFindTicks : Poll(d)
    \/ \E s \in 0..MaxOversleep : Sleep(s)
    \/ Act

AlertSpec == AlertInit /\ [][AlertNext]_vars

\* A session in which tests call the methods that write files.
FileInit ==
    /\ NoElementCall /\ OneWindow /\ InitCookies
    /\ InitFiles /\ NoSelectCall /\ InSession /\ InitSelf

FileNext ==
    \/ \E f \in FilePaths : capture_screenshot(f)
    \/ \E f \in FilePaths : take_screenshot(f)
    \/ \E u \in FileUrls, f \in FilePaths : download_file(u, f)

FileSpec == FileInit /\ [][FileNext]_vars

\* A session in which tests call the dropdown methods on one dropdown.
SelectInit ==
    /\ NoElementCall /\ OneWindow /\ InitCookies
    /\ NoFileCall /\ InitSelect /\ InSession /\ InitSelf

SelectNext ==
    \/ \E v \in Labels \cup {"D"} : SelectDropdownOptionByValue(v)
    \/ \E t \in Labels \cup {"D"} : select_dropdown_option_by_visible_text(t)
    \/ get_selected_option_text

SelectSpec == SelectInit /\ [][SelectNext]_vars

\* A test run under the setup fixture: the fixture creates the session, the
\* test adds and deletes cookies, the fixture ends the session.
SessionInit ==
    /\ NoElementCall /\ OneWindow /\ InitCookies
    /\ NoFileCall /\ NoSelectCall /\ InitSession /\ InitSelf

SessionNext ==
    \/ setup
    \/ phase = "test" /\ \E c \in CookieDicts : add_cookie(c)
    \/ phase = "test" /\ delete_all_cookies
    \/ teardown

SessionSpec == SessionInit /\ [][SessionNext]_vars

\* ------------------------------------------------------------- type check
TypeOK ==
    /\ dom \in DomStates
    /\ pc \in {"idle", "poll", "sleep", "act", "done"}
    /\ op \in Methods \cup ClickMethods \cup ListMethods \cup AlertMethods
               \cup GestureMethods \cup {NoMethod}
    /\ arg \in TimeoutArgs
    /\ now \in Nat
    /\ handle \in [gen : 0..MaxGen, fresh : BOOLEAN]
    /\ Len(log) <= Len(Acts(op, elements, index, options))
    /\ outcome \in {"none", "returned", "TypeError", "TimeoutException",
                    "StaleElementReferenceException", "IndexError",
                    "NoAlertPresentException", "ElementNotInteractableException"}
    /\ result \in {"None", "True", "False", "element", "value", "elements",
                   "len", "alert"}
    /\ count \in 0..MaxMatches
    /\ dom.present <=> count > 0
    /\ elements \in 0..MaxMatches
    /\ index \in IndexArgs
    /\ options \in 0..MaxOptions
    /\ dom2 \in DomStates
    /\ stage \in {1, 2}
    /\ handle2 \in [gen : 0..MaxGen, fresh : BOOLEAN]
    /\ stage = 2 => TwoLocators(op)
    /\ secondStart \in Nat

\* ------------------------------------------------------------ properties
Done == pc = "done"

TimeoutTicks == TimeoutOf(op, arg) * TicksPerSecond

BooleanQueries == {"is_element_displayed", "is_element_clickable"}

\* C1: is_element_displayed and is_element_clickable never end with a
\* TimeoutException: when their wait timed out, or (is_element_displayed) the
\* element was never displayed during the wait, they returned False.
C1_QueriesReturnFalseOnTimeout ==
    op.name \in BooleanQueries =>
        /\ outcome # "TimeoutException"
        /\ waitTimedOut => Done /\ outcome = "returned" /\ result = "False"
        /\ (Done /\ op.name = "is_element_displayed" /\ ~arg.given /\ ~everVisible)
               => outcome = "returned" /\ result = "False"

C1_Witness ==
    /\ Done
    /\ op.name = "is_element_clickable"
    /\ waitTimedOut
    /\ everVisible
    /\ result = "False"

C5_PresenceTimeoutNotEarly ==
    /\ (Done /\ op.wait = "until" /\ op.ec = "presence_of_element_located"
             /\ outcome # "TypeError" /\ ~everPresent)
           => outcome = "TimeoutException"
    /\ waitTimedOut => now >= TimeoutTicks

C5_Witness ==
    /\ Done
    /\ op.name = "get_element_text"
    /\ ~everPresent
    /\ outcome = "TimeoutException"
    /\ now > TimeoutTicks

\* C6 as stated: click_element, called with a timeout of 1 second on a locator
\* that never matches, raises TimeoutException after 1 second and before the
\* default 10 seconds.
C6_ClickElementTakesTimeout ==
    (Done /\ op.name = "click_element" /\ arg.given /\ arg.secs = 1 /\ ~everPresent)
        => /\ outcome = "TimeoutException"
           /\ now >= TicksPerSecond
           /\ now < DefaultTimeout * TicksPerSecond

\* C6, amended: the timeout is a parameter of the wait_for_* methods and of
\* is_element_clickable only. wait_for_element with a timeout, on a locator
\* that never matches, raises TimeoutException after that timeout, at the
\* first deadline test past it; click_element has no timeout parameter: given
\* one it fails with TypeError without waiting, and called as declared it
\* raises TimeoutException only after the default 10 seconds.
C6_TimeoutIsParameterOfWaitsOnly ==
    (Done /\ ~everPresent) =>
        /\ (op.name = "wait_for_element" /\ arg.given)
               => /\ outcome = "TimeoutException"
                  /\ now > arg.secs * TicksPerSecond
                  /\ now <= arg.secs * TicksPerSecond
                              + MaxFindTicks + PollTicks + MaxOversleep
        /\ (op.name = "click_element" /\ arg.given)
               => outcome = "TypeError" /\ now = 0 /\ ~waitTimedOut
        /\ (op.name = "click_element" /\ ~arg.given)
               => outcome = "TimeoutException" /\ now > DefaultTimeout * TicksPerSecond

C6_Witness ==
    /\ Done
    /\ ~everPresent
    /\ op.name = "wait_for_element"
    /\ arg.given
    /\ arg.secs = 1
    /\ outcome = "TimeoutException"

\* C7: the element a method acts on or returns was looked up in the same
\* call, never in an earlier one, and it is an element that was in the
\* document after the call started: when the locator matched nothing at the
\* start, an element attached since.
C7_ElementResolvedInCall ==
    /\ handle.gen # 0 => handle.fresh /\ handle.gen >= firstGen
    /\ \A i \in 1..Len(log) : log[i].fresh /\ log[i].gen >= firstGen

C7_Witness ==
    /\ Done
    /\ op.name = "get_element_text"
    /\ outcome = "returned"
    /\ prev.gen # 0
    /\ firstGen > prev.gen
    /\ Len(log) = 1
    /\ log[1].gen > prev.gen

\* C8 as stated: wait_for_invisible_element returns, without raising, when
\* the element was absent or present but not displayed during the wait.
C8_InvisibleWaitAcceptsHidden ==
    (Done /\ op.name = "wait_for_invisible_element" /\ ~everVisible)
        => outcome = "returned"

\* C9 as stated: wait_for_invisible_element returns a boolean, False when the
\* element is still there as the timeout ends, True otherwise.
C9_InvisibleWaitReturnsBoolean ==
    (Done /\ op.name = "wait_for_invisible_element")
        => /\ outcome = "returned"
           /\ result = (IF waitTimedOut THEN "False" ELSE "True")

SearchCalls == {"switch_to_window_by_title", "switch_to_window_by_url"}

\* The text of window h the last call searched in, and whether it contains
\* the text searched for.
Searched(h) ==
    IF wop.name = "switch_to_window_by_title" THEN page[h].title ELSE page[h].url

Holds(h) == Contains(wop.text, Searched(h))

\* The open windows other than the one focused when the call started.
Others == SelectSeq(handles, LAMBDA h : h # startCur)

C4_IndexErrorIffTooLarge ==
    wop.name = "switch_to_window_by_index" =>
        /\ woutcome = "IndexError" <=> wop.index >= Len(handles)
        /\ woutcome = "returned" <=> wop.index < Len(handles)

\* C4, amended: with n open windows, switch_to_window_by_index raises
\* IndexError if and only if the index is at least n or below -n; an index
\* from 0 to n-1 focuses the window at that position, and an index from -n to
\* -1 the window at that position counted from the end.
C4_IndexErrorIffOutsideList ==
    wop.name = "switch_to_window_by_index" =>
        LET n == Len(handles)
            i == wop.index
        IN  /\ woutcome = "IndexError" <=> (i >= n \/ i < -n)
            /\ woutcome = "IndexError" => cur = startCur
            /\ (0 <= i /\ i < n) => woutcome = "returned" /\ cur = handles[i + 1]
            /\ (-n <= i /\ i < 0) => woutcome = "returned" /\ cur = handles[n + i + 1]

C4_Witness ==
    /\ wop.name = "switch_to_window_by_index"
    /\ wop.index = -1
    /\ Len(handles) = MaxWindows
    /\ woutcome = "returned"
    /\ startCur = handles[1]
    /\ cur = handles[Len(handles)]

\* C10: after add_cookie of a cookie, get_cookie of its name returns a cookie
\* with that name and value; adding the same cookie again changes neither the
\* cookies of the session nor what get_cookie returns.
C10_CookieRoundTrip ==
    /\ cop.name = "add_cookie" =>
           LET g == GetCookieResult(jar, cop.cookie.name)
           IN  g.name = cop.cookie.name /\ g.value = cop.cookie.value
    /\ (cop.name = "add_cookie" /\ prevCop = cop) =>
           /\ jar = prevJar
           /\ GetCookieResult(jar, cop.cookie.name)
                  = GetCookieResult(prevJar, cop.cookie.name)
    /\ (cop.name = "get_cookie" /\ prevCop.name = "add_cookie"
            /\ prevCop.cookie.name = cop.cookie.name) =>
           cres.name = prevCop.cookie.name /\ cres.value = prevCop.cookie.value

C10_Witness ==
    /\ cop.name = "get_cookie"
    /\ prevCop.name = "add_cookie"
    /\ prevCop.cookie.name = cop.cookie.name
    /\ cres.value = prevCop.cookie.value
    /\ Cardinality(jar) > 1

\* A wait is in progress, and it has ended in exactly one of its two ways.
Waiting == pc \in {"poll", "sleep"}

WaitEnded == pc \in {"act", "done"} /\ (waitReturned # waitTimedOut)

\* C14: a wait that has started ends, with the value of its condition or
\* with TimeoutException and never both; until then it has done neither.
C14_EveryWaitEnds ==
    /\ [](Waiting => ~waitReturned /\ ~waitTimedOut)
    /\ [](pc \in {"act", "done"} /\ outcome # "TypeError" => WaitEnded)
    /\ (Waiting ~> WaitEnded)

C14_Witness ==
    /\ Done
    /\ op.name = "wait_for_visible_element"
    /\ arg.given
    /\ arg.secs = MaxTimeoutArg
    /\ waitTimedOut
    /\ everPresent
    /\ ~everVisible
    /\ outcome = "TimeoutException"

\* The last two dropdown calls were select_dropdown_option_by_value, which
\* returned, and then get_selected_option_text.
SelectedThenRead ==
    /\ sop.name = "get_selected_option_text"
    /\ prevSop.name = "select_dropdown_option_by_value"
    /\ prevSop.outcome = "returned"

\* C11 as stated: the text get_selected_option_text returns after
\* select_dropdown_option_by_value is the argument that selected the option.
C11_TextReadIsValueSelected ==
    SelectedThenRead => sop.outcome = "returned" /\ sres = prevSop.arg

\* C11, amended: after select_dropdown_option_by_value(v) has returned,
\* get_selected_option_text returns the visible text of the first selected
\* option in document order. In a single select that is the option whose
\* value attribute is v, and its text is v when the options' texts are their
\* values (A, B, C: selecting B reads B); in a multiple select it is the
\* earliest selected option, at or before the one just selected.
C11_TextOfFirstSelectedOption ==
    SelectedThenRead =>
        LET opts == dropdown.options
            v == prevSop.arg
        IN  /\ sop.outcome = "returned"
            /\ picked # {}
            /\ sres = opts[Least(picked)].text
            /\ \E i \in picked :
                   /\ opts[i].value = v
                   /\ Least(picked) <= i
                   /\ ~dropdown.multiple => picked = {i} /\ sres = opts[i].text
            /\ (~dropdown.multiple /\ \A i \in 1..Len(opts) : opts[i].text = opts[i].value)
                   => sres = v

C11_Witness ==
    /\ SelectedThenRead
    /\ ~dropdown.multiple
    /\ prevSop.arg = "B"
    /\ prevPicked = {2}
    /\ sres = "C"

\* C12: get_element_count returns the number of elements the locator matches
\* at the poll that ends its wait, which is at least one.
C12_CountIsLengthOfListFound ==
    [][(op.name = "get_element_count" /\ pc = "poll" /\ pc' = "done")
          => /\ outcome' = "returned"
             /\ result' = "len"
             /\ number' = count
             /\ count > 0]_vars

C12_Witness ==
    /\ Done
    /\ op.name = "get_element_count"
    /\ outcome = "returned"
    /\ number = 3
    /\ count < 3

\* C13: a method that waits for the alert, when no alert was open during the
\* whole wait, ends with TimeoutException at the first deadline test past its
\* timeout (wait_for_alert's argument, the default for accept_alert and
\* get_alert_text), having accepted nothing and read nothing.
C13_NoAlertTimesOutWithoutAction ==
    /\ (Done /\ op.ec = "alert_is_present" /\ outcome # "TypeError" /\ ~everAlert) =>
           LET T == (IF arg.given THEN arg.secs ELSE DefaultTimeout) * TicksPerSecond
           IN  /\ outcome = "TimeoutException"
               /\ now > T
               /\ now <= T + MaxFindTicks + PollTicks + MaxOversleep
               /\ log = <<>>
               /\ result = "None"
    /\ (op.ec = "alert_is_present" /\ log # <<>>) => everAlert /\ ~waitTimedOut

C13_Witness ==
    /\ Done
    /\ op.name = "wait_for_alert"
    /\ arg.given
    /\ arg.secs = 2
    /\ ~everAlert
    /\ outcome = "TimeoutException"
    /\ now = 2 * TicksPerSecond + 1

FileEffect ==
    IF fop.name = "download_file"
    THEN files[fop.path] = served[fop.url]
    ELSE files[fop.path] = "png"

\* C15 as stated: outside the two boolean queries a wait that fails is
\* observed by the caller as that failure, and a method that reports success
\* has performed its documented effect.
C15_NoFailureSwallowedNoEmptySuccess ==
    /\ (waitTimedOut /\ op.name \notin BooleanQueries) => outcome = "TimeoutException"
    /\ (outcome = "returned" /\ op.acts # <<>> /\ op.name \notin BooleanQueries)
           => log # <<>>
    /\ foutcome = "returned" => FileEffect

\* C18 as stated: after download_file returns, the destination path holds the
\* content served at the URL.
C18_DownloadWritesDestination ==
    fop.name = "download_file" =>
        foutcome = "returned" /\ files[fop.path] = served[fop.url]

\* A call whose wait returned and which then returned.
Succeeded == Done /\ waitReturned /\ outcome = "returned"

C17_OnlyTheDriverIsKept ==
    /\ self.driver = "session"
    /\ self.others = {}

C17_Witness ==
    /\ Done
    /\ outcome = "TimeoutException"
    /\ prev.gen # 0
    /\ arg.given
    /\ self.others = {}

Recognised == {"chrome", "firefox", "edge"}

\* C19 as stated: setup raises ValueError if and only if the browser name
\* is none of chrome, firefox and edge, without having created a session,
\* and for each of these names it yields a session of that browser.
C19_SetupCreatesSelectedBrowser ==
    phase # "new" =>
        /\ setupOutcome = "ValueError" <=> config.browser \notin Recognised
        /\ setupOutcome = "ValueError" => session = NoSession
        /\ config.browser \in Recognised =>
               /\ setupOutcome = "yielded"
               /\ phase = "test" =>
                      /\ session.browser = config.browser
                      /\ BrowserOfDriver(session.driver) = config.browser

Clicks == {"click_element", "perform_double_click", "perform_right_click"}

\* C20: the poll of click_element, perform_double_click and
\* perform_right_click ends the wait exactly when the locator matches an
\* element, displayed and enabled or not, and the click is then issued on
\* that element if it is still attached; the poll of is_element_clickable
\* returns True exactly when the element is there, displayed and enabled.
C20_ClicksWaitForPresenceOnly ==
    [][/\ (op.name \in Clicks /\ pc = "poll" /\ pc' # "poll")
              => (pc' = "act" <=> dom.present)
       /\ (op.name \in Clicks /\ pc = "act" /\ pc' # "act"
               /\ dom.present /\ dom.gen = handle.gen)
              => Len(log') = 1 /\ log'[1].gen = dom.gen
       /\ (op.name = "is_element_clickable" /\ pc = "poll" /\ pc' # "poll")
              => ((pc' = "done" /\ result' = "True")
                     <=> (dom.present /\ dom.visible /\ dom.enabled))]_vars

C20_Witness ==
    /\ Done
    /\ op.name = "perform_right_click"
    /\ Len(log) = 1
    /\ log[1].act = "context_click"
    /\ everPresent
    /\ ~everVisible
    /\ ~dom.enabled

\* The ticks of the default timeout, which each wait of a two-locator method
\* is given.
GestureTicks == DefaultTimeout * TicksPerSecond

\* When the wait that is running, or ran last, began.
WaitStart == IF stage = 2 THEN secondStart ELSE 0

\* C21: drag_and_drop and hover_and_click wait for the first element and
\* then for the second, the second wait with a full default timeout counted
\* from the moment the first returned; the one gesture is issued only after
\* both waits have returned an element; a call whose first element, or whose
\* second element, was never there during its wait ends with a
\* TimeoutException, no sooner than the timeout of that wait, with no gesture.
C21_GestureOnlyAfterBothFound ==
    TwoLocators(op) =>
        /\ Len(log) <= 1
        /\ log # <<>> => /\ stage = 2
                         /\ handle.gen # 0
                         /\ handle2.gen # 0
                         /\ waitReturned
        /\ pc \in {"poll", "sleep"} => log = <<>>
        /\ handle2.gen # 0 => stage = 2
        /\ stage = 2 => /\ handle.gen # 0
                        /\ endTime = secondStart + GestureTicks
        /\ (Done /\ ~everPresent)
               => stage = 1 /\ outcome = "TimeoutException"
        /\ (Done /\ stage = 2 /\ ~everSecond)
               => outcome = "TimeoutException"
        /\ (Done /\ (stage = 1 \/ handle2.gen = 0))
               => outcome = "TimeoutException"
        /\ outcome = "TimeoutException"
               => /\ log = <<>>
                  /\ waitTimedOut
                  /\ now - WaitStart > GestureTicks

C21_Witness ==
    /\ Done
    /\ op.name = "drag_and_drop"
    /\ stage = 2
    /\ secondStart > 0
    /\ everPresent
    /\ ~everSecond
    /\ outcome = "TimeoutException"
    /\ log = <<>>

C23_CountIsNeverZero ==
    op.name = "get_element_count" =>
        /\ outcome \in {"none", "returned", "TimeoutException"}
        /\ outcome = "returned"
               => /\ result = "len"
                  /\ number >= 1
                  /\ number = elements
                  /\ everPresent
        /\ (Done /\ ~everPresent)
               => /\ outcome = "TimeoutException"
                  /\ ~waitReturned
                  /\ number = 0
                  /\ now > DefaultTimeout * TicksPerSecond
        /\ outcome = "TimeoutException" => now > DefaultTimeout * TicksPerSecond

C23_Witness ==
    /\ Done
    /\ op.name = "get_element_count"
    /\ ~everPresent
    /\ count = 0
    /\ outcome = "TimeoutException"
    /\ waitTimedOut

====
